---- MODULE Spec2Model ----
(***************************************************************************)
(* Model of the austrich-ai backend pipeline: the three streaming entry    *)
(* points of main.py (analyze-from-s3, analyze-transcript,                 *)
(* upload-and-analyze), the transcription job poller of transcribe.py, the *)
(* report generation invoker of bedrock.py and the report store of         *)
(* s3_client.py.                                                           *)
(*                                                                         *)
(* Texts are sequences of tokens.  A model response is a sequence over     *)
(*   "ws" (white space), "fence" (```), "json" (the word json), "{", "}",  *)
(*   "ck" (the member "checklist"), "[]" (an empty array), "p" (prose);  *)
(* "ck" may be followed by the fields of one checklist entry: the token    *)
(* "timestamp" or "timestamp_end" and then the characters of its value.    *)
(* Storage keys and identifiers are sequences of path tokens, e.g.         *)
(* <<"reports/", "uuid3", ".json">>.  A transcript is a sequence of lines. *)
(* The wall-clock field created_at of a report is not modelled.            *)
(***************************************************************************)
EXTENDS Integers, Sequences, FiniteSets, TLC

(* ---------- bounds of the model ---------- *)
MaxPolls == 3
MaxCount == 3
MaxCountWide == 11
MaxTextLen == 4
MaxSuffixLen == 3
MaxSegments == 2

(* ---------- program constants ---------- *)
MinBatch == 1
MaxBatch == 10
StampWidth == 8

None == <<>>

SeqMin(S) == CHOOSE m \in S : \A n \in S : m <= n
SeqMax(S) == CHOOSE m \in S : \A n \in S : m >= n
PyMin(a, b) == IF a <= b THEN a ELSE b
PyMax(a, b) == IF a >= b THEN a ELSE b

(* ---------- main.py: batch count ---------- *)
\* request.batch_count or 1
CountOrOne(c) == IF c = None THEN 1 ELSE IF c[1] = 0 THEN 1 ELSE c[1]

\* mutant: the lower limit of the clamp is forgotten
BatchCountNoFloor(c) == PyMin(CountOrOne(c), MaxBatch)

\* max(1, min(request.batch_count or 1, 10))
BatchCount(c) == PyMax(MinBatch, PyMin(CountOrOne(c), MaxBatch))

(* ---------- identifiers and keys ---------- *)
\* str(uuid.uuid4()): the n-th identifier drawn by the run
Uuid(n) == "uuid" \o ToString(n)

\* f"reports/{report_id}.json"
ReportKey(rid) == <<"reports/">> \o rid \o <<".json">>

\* file_key.replace('.json', '')
StripJsonSuffix(key) == SelectSeq(key, LAMBDA t : t # ".json")

\* put_object: an object stored under an existing key is overwritten
PutObject(bucket, key, body) ==
    {o \in bucket : o.key # key} \cup {[key |-> key, body |-> body]}

HasKey(bucket, key) == \E o \in bucket : o.key = key
GetObject(bucket, key) == (CHOOSE o \in bucket : o.key = key).body

(* ---------- main.py: structured-response extraction ---------- *)
\* str.strip()
Strip(s) ==
    LET idx == {i \in 1..Len(s) : s[i] # "ws"}
    IN  IF idx = {} THEN <<>> ELSE SubSeq(s, SeqMin(idx), SeqMax(idx))

FenceIdx(s) == {i \in 1..Len(s) : s[i] = "fence"}
JsonFenceIdx(s) == {i \in 1..(Len(s) - 1) : s[i] = "fence" /\ s[i + 1] = "json"}

\* t.split('```', 1)[0]
BeforeFirstFence(t) ==
    IF FenceIdx(t) = {} THEN t ELSE SubSeq(t, 1, SeqMin(FenceIdx(t)) - 1)

\* t.rsplit('```', 1)[0]
BeforeLastFence(t) ==
    IF FenceIdx(t) = {} THEN t ELSE SubSeq(t, 1, SeqMax(FenceIdx(t)) - 1)

\* lines 152-155: take the interior of a fenced block
Unfence(s) ==
    IF JsonFenceIdx(s) # {}
    THEN BeforeFirstFence(SubSeq(s, SeqMin(JsonFenceIdx(s)) + 2, Len(s)))
    ELSE IF FenceIdx(s) # {}
         THEN BeforeLastFence(SubSeq(s, SeqMin(FenceIdx(s)) + 1, Len(s)))
         ELSE s

\* str.find('{'): 0-based index of the first brace, -1 when absent
FindOpen(s) ==
    LET idx == {i \in 1..Len(s) : s[i] = "{"}
    IN  IF idx = {} THEN -1 ELSE SeqMin(idx) - 1

\* str.rfind('}') + 1
RFindClosePlusOne(s) ==
    LET idx == {i \in 1..Len(s) : s[i] = "}"}
    IN  IF idx = {} THEN 0 ELSE SeqMax(idx)

\* lines 157-160: slice from the first '{' to the last '}'
BraceSlice(s) ==
    LET start == FindOpen(s)
        end == RFindClosePlusOne(s)
    IN  IF start # -1 /\ end > start THEN SubSeq(s, start + 1, end) ELSE s

\* lines 150-160: the text handed to json.loads
CleanedText(report_text) == BraceSlice(Unfence(Strip(report_text)))

\* the characters of a timestamp value, and the two timestamp fields of a
\* checklist entry (a field that is absent and one that is the empty string
\* are both the empty sequence: the clean-up skips either)
StampChars == {"0", "1", "2", "3", "4", "5", "9", ":", ".", ","}
FieldNames == {"timestamp", "timestamp_end"}

\* str.split(sep)[0]: the part before the first sep, the whole string
\* when it has none
SplitHead(s, sep) ==
    LET idx == {i \in 1..Len(s) : s[i] = sep}
    IN  IF idx = {} THEN s ELSE SubSeq(s, 1, SeqMin(idx) - 1)

\* s[:n]
Prefix(s, n) == SubSeq(s, 1, PyMin(n, Len(s)))

\* mutant: only the `.` separator is cut
CleanTimestampDotOnly(ts) == Prefix(SplitHead(ts, "."), StampWidth)

\* lines 166 and 168: item['timestamp'].split('.')[0].split(',')[0][:8]
CleanTimestamp(ts) == Prefix(SplitHead(SplitHead(ts, "."), ","), StampWidth)

\* lines 165-168: the clean-up of the entry's fields that are present and
\* not empty
CleanEntry(data) ==
    [data EXCEPT !.timestamp = IF @ # <<>> THEN CleanTimestamp(@) ELSE @,
                 !.timestamp_end = IF @ # <<>> THEN CleanTimestamp(@) ELSE @]

\* json.loads: white space between JSON tokens is ignored
JsonLoads(s) ==
    LET t == SelectSeq(s, LAMBDA x : x # "ws")
        bad == [kind |-> "JSONDecodeError", checklist |-> FALSE,
                timestamp |-> <<>>, timestamp_end |-> <<>>]
    IN  IF t = <<"{", "}">>
        THEN [kind |-> "object", checklist |-> FALSE,
              timestamp |-> <<>>, timestamp_end |-> <<>>]
        ELSE IF t = <<"[]">>
        THEN [kind |-> "list", checklist |-> FALSE,
              timestamp |-> <<>>, timestamp_end |-> <<>>]
        ELSE IF Len(t) >= 3 /\ t[1] = "{" /\ t[2] = "ck" /\ t[Len(t)] = "}"
        THEN LET body == SubSeq(t, 3, Len(t) - 1)
                 ts == {i \in 1..Len(body) : body[i] = "timestamp"}
                 te == {i \in 1..Len(body) : body[i] = "timestamp_end"}
                 wellFormed ==
                     /\ \A i \in 1..Len(body) : body[i] \in StampChars \cup FieldNames
                     /\ body # <<>> => body[1] \in FieldNames
                     /\ Cardinality(ts) <= 1 /\ Cardinality(te) <= 1
                     /\ (ts # {} /\ te # {}) => ts = {1}
                 tsEnd == IF te # {} THEN SeqMin(te) - 1 ELSE Len(body)
             IN  IF wellFormed
                 THEN [kind |-> "object", checklist |-> TRUE,
                       timestamp |-> IF ts = {} THEN <<>> ELSE SubSeq(body, 2, tsEnd),
                       timestamp_end |-> IF te = {} THEN <<>>
                                         ELSE SubSeq(body, SeqMin(te) + 1, Len(body))]
                 ELSE bad
        ELSE bad

\* json.dumps(report_data) of a parsed object
JsonDumps(data) ==
    IF data.checklist
    THEN <<"{", "ck">>
         \o (IF data.timestamp = <<>> THEN <<>> ELSE <<"timestamp">> \o data.timestamp)
         \o (IF data.timestamp_end = <<>> THEN <<>>
             ELSE <<"timestamp_end">> \o data.timestamp_end)
         \o <<"}">>
    ELSE <<"{", "}">>

\* lines 149-173: "ok" with the parsed object, "JSONDecodeError" (caught by
\* the inner handler), or "AttributeError" (report_data.get on a value that
\* is not an object, caught by the outer handler); the timestamps of
\* the parsed object's checklist entry are cleaned.
ExtractResponse(report_text) ==
    LET data == JsonLoads(CleanedText(report_text))
    IN  IF data.kind = "JSONDecodeError" THEN [outcome |-> "JSONDecodeError", data |-> data]
        ELSE IF data.kind # "object" THEN [outcome |-> "AttributeError", data |-> data]
        ELSE [outcome |-> "ok", data |-> CleanEntry(data)]

(* ---------- transcribe.py: diarization formatter ---------- *)
\* format_time: start times are kept in tenths of a second
FormatTime(ds) ==
    LET seconds == ds \div 10
    IN  <<seconds \div 3600, (seconds % 3600) \div 60, seconds % 60>>

\* the first word item whose start_time equals the segment item's
MatchIdx(items, st) == {j \in 1..Len(items) : items[j].start_time = st}

RECURSIVE SegmentWords(_, _)
SegmentWords(segItems, items) ==
    IF segItems = <<>> THEN <<>>
    ELSE LET m == MatchIdx(items, Head(segItems))
             rest == SegmentWords(Tail(segItems), items)
         IN  IF m = {} THEN rest
             ELSE <<items[SeqMin(m)].alternatives[1]>> \o rest

\* word_item['alternatives'][0] raises on an item without alternatives
FormatRaises(data) ==
    /\ data.hasResults
    /\ \E i \in 1..Len(data.segments) : \E k \in 1..Len(data.segments[i].items) :
          LET m == MatchIdx(data.items, data.segments[i].items[k])
          IN  m # {} /\ data.items[SeqMin(m)].alternatives = <<>>

RECURSIVE FormatSegments(_, _)
FormatSegments(segments, items) ==
    IF segments = <<>> THEN <<>>
    ELSE LET seg == Head(segments)
             words == SegmentWords(seg.items, items)
             rest == FormatSegments(Tail(segments), items)
         IN  IF words = <<>> THEN rest
             ELSE <<[timestamp |-> FormatTime(seg.start_time),
                     speaker |-> IF seg.speaker_label = "spk_0" THEN "Student" ELSE "Patient",
                     text |-> words]>> \o rest

\* format_transcript
format_transcript(data) ==
    IF ~data.hasResults THEN <<>> ELSE FormatSegments(data.segments, data.items)

\* format_map.get(file_ext, 'mp3') on the extension of the audio key
MediaFormat(ext) ==
    CASE ext = ".mp3" -> "mp3"
      [] ext = ".wav" -> "wav"
      [] ext = ".m4a" -> "mp4"
      [] ext = ".flac" -> "flac"
      [] ext = ".ogg" -> "ogg"
      [] ext = ".webm" -> "webm"
      [] OTHER -> "mp3"

\* the extensions accepted by upload_and_analyze_audio
AudioExts == {".mp3", ".wav", ".m4a", ".flac", ".ogg", ".webm"}

(* ---------- sample inputs and collaborator answers ---------- *)
SampleTranscript ==
    <<[timestamp |-> <<0, 0, 1>>, speaker |-> "Student", text |-> <<"Hello">>]>>
StoredTranscript ==
    <<[timestamp |-> <<0, 0, 2>>, speaker |-> "Patient", text |-> <<"Hi">>]>>
ExistingKey == <<"transcripts/", "visit1", ".txt">>
MissingKey == <<"transcripts/", "nofile", ".txt">>
InitInputBucket == {[key |-> ExistingKey, body |-> StoredTranscript]}

RespFenced == <<"fence", "json", "ws", "{", "ck", "}", "ws", "fence">>
RespProse == <<"p", "{", "ck", "}", "p">>
RespNoChecklist == <<"{", "}">>
RespArray == <<"[]">>
RespGarbage == <<"p">>
Responses == {RespFenced, RespProse, RespNoChecklist, RespArray, RespGarbage}

\* the extractor's result for each answer text the service gives
ExtractOutcome == [t \in Responses |-> ExtractResponse(t)]

DocOk ==
    [hasResults |-> TRUE,
     segments |-> <<[speaker_label |-> "spk_0", start_time |-> 15, items |-> <<15>>],
                    [speaker_label |-> "spk_1", start_time |-> 36625, items |-> <<36625, 36700>>],
                    [speaker_label |-> "spk_0", start_time |-> 36800, items |-> <<99999>>]>>,
     items |-> <<[start_time |-> 15, alternatives |-> <<"Hello">>],
                 [start_time |-> 36625, alternatives |-> <<"Hi">>],
                 [start_time |-> 36700, alternatives |-> <<"there">>]>>]
DocNoResults == [hasResults |-> FALSE, segments |-> <<>>, items |-> <<>>]
DocNoAlternatives ==
    [hasResults |-> TRUE,
     segments |-> <<[speaker_label |-> "spk_0", start_time |-> 15, items |-> <<15>>]>>,
     items |-> <<[start_time |-> 15, alternatives |-> <<>>]>>]
SampleDocs == {DocOk, DocNoResults, DocNoAlternatives}

Models == {None, <<"model-a">>}
\* BEDROCK_MODEL_ID
DefaultModel == <<"default-model">>

Counts == {None} \cup {<<c>> : c \in (-1)..MaxCount}
CountsWide == {None} \cup {<<c>> : c \in (-2)..MaxCountWide}

(* ---------- state ---------- *)
VARIABLES
    entry,            \* the entry point of the run: "s3", "text" or "audio"
    req,              \* the request
    svcTexts,         \* the texts the generation service may answer with
    svcDocs,          \* the result documents the transcription service may give
    peer,             \* a second, concurrent upload-and-analyze run
    pc,               \* position of the run in its handler
    events,           \* the progress stream emitted so far
    oplog,            \* the steps made so far, external calls included
    abortLen,         \* Len(oplog) when the first failure happened, -1 before
    nextUuid,         \* number of identifiers drawn from uuid4 so far
    inputBucket,      \* objects of S3_INPUT_BUCKET
    outputBucket,     \* objects of S3_OUTPUT_BUCKET
    transcript,       \* local transcript / transcript_text
    report_ids_list,  \* analyze-from-s3: identifiers in submission order
    report_ids,       \* analyze-from-s3: identifiers of the saved reports
    tasks,            \* the generation calls of the run, in submission order
    job,              \* the transcription job in the external service
    pollReads,        \* the job statuses read by the poll loop
    audio_key,
    transcript_key,
    report_id,
    report_data

vars == <<entry, req, svcTexts, svcDocs, peer, pc, events, oplog, abortLen, nextUuid,
          inputBucket, outputBucket, transcript, report_ids_list, report_ids,
          tasks, job, pollReads, audio_key, transcript_key, report_id, report_data>>

ExternalOps == {"s3_get", "generate", "report_put", "audio_put", "transcript_put",
                "tr_start", "tr_poll", "tr_fetch", "tr_delete"}
TerminalStatus == {"complete", "error"}
NoJob == [name |-> None, status |-> "NONE", format |-> "", exists |-> FALSE]
NoData == [kind |-> "none", checklist |-> FALSE, timestamp |-> <<>>, timestamp_end |-> <<>>]

Request(bc, fk, m, hasFile, decodable, fileText, formText, ext, stem) ==
    [batch_count |-> bc, file_key |-> fk, model_id |-> m,
     hasFile |-> hasFile, decodable |-> decodable, fileText |-> fileText,
     formText |-> formText, file_ext |-> ext, filename_stem |-> stem]

S3Requests ==
    {Request(bc, fk, m, FALSE, TRUE, <<>>, <<>>, "", "") :
        bc \in Counts, fk \in {ExistingKey, MissingKey}, m \in Models}
S3RequestsWide ==
    {Request(bc, ExistingKey, None, FALSE, TRUE, <<>>, <<>>, "", "") : bc \in CountsWide}
TextRequests ==
    {Request(None, None, m, TRUE, d, ft, <<>>, ".txt", "upload") :
        m \in Models, d \in BOOLEAN, ft \in {<<>>, SampleTranscript}}
    \cup {Request(None, None, m, FALSE, TRUE, <<>>, t, "", "") :
        m \in Models, t \in {<<>>, SampleTranscript}}
AudioRequests ==
    {Request(None, None, <<"model-a">>, TRUE, TRUE, <<>>, <<>>, ext, stem) :
        ext \in {".mp3", ".m4a", ".txt"}, stem \in {"", "visit1"}}

StartPc(e) == CASE e = "s3" -> "s3_start" [] e = "text" -> "text_entry" [] e = "audio" -> "audio_validate"

\* no second run
NoPeer == [pc |-> "none", stem |-> "", transcript |-> <<>>, transcript_key |-> None,
           report_id |-> None, complete_key |-> None]

InitRunWith(e, r, texts, docs, p) ==
    /\ entry = e
    /\ req = r
    /\ svcTexts = texts
    /\ svcDocs = docs
    /\ peer = p
    /\ pc = StartPc(e)
    /\ events = <<>>
    /\ oplog = <<>>
    /\ abortLen = -1
    /\ nextUuid = 0
    /\ inputBucket = InitInputBucket
    /\ outputBucket = {}
    /\ transcript = <<>>
    /\ report_ids_list = <<>>
    /\ report_ids = <<>>
    /\ tasks = <<>>
    /\ job = NoJob
    /\ pollReads = <<>>
    /\ audio_key = None
    /\ transcript_key = None
    /\ report_id = None
    /\ report_data = NoData

InitRun(e, r, texts) == InitRunWith(e, r, texts, SampleDocs, NoPeer)

Init ==
    \/ \E r \in S3Requests : InitRun("s3", r, Responses)
    \/ \E r \in TextRequests : InitRun("text", r, Responses)
    \/ \E r \in AudioRequests : InitRun("audio", r, Responses)

\* wide range of requested counts, one answer text
InitBatch == \E r \in S3RequestsWide : InitRun("s3", r, {RespProse})

\* every answer text of at most MaxTextLen tokens, submitted transcript fixed
TextTokens == {"ws", "fence", "json", "{", "}", "p"}
AnswerTexts == UNION {[1..n -> TextTokens] : n \in 0..MaxTextLen}

InitExtract ==
    \E t \in AnswerTexts :
        InitRun("text", Request(None, None, None, FALSE, TRUE, <<>>, SampleTranscript, "", ""),
                {t})

\* timestamp values as the model may write them: a base of 0, 4, 7, 8 or 9
\* characters followed by at most MaxSuffixLen further characters, and the
\* two values with a fractional part of three digits
StampBases ==
    {<<>>,
     <<"1", ":", "0", "2">>,
     <<"0", ":", "0", "1", ":", "0", "2">>,
     <<"0", "0", ":", "0", "1", ":", "0", "2">>,
     <<"0", "0", "0", ":", "0", "1", ":", "0", "2">>}
StampSuffixes == UNION {[1..n -> {".", ",", ":", "9"}] : n \in 0..MaxSuffixLen}
StampDot == <<"0", "0", ":", "0", "1", ":", "0", "2", ".", "3", "4", "5">>
StampComma == <<"0", "0", ":", "0", "1", ":", "0", "2", ",", "9", "9", "9">>
Stamps == {b \o x : b \in StampBases, x \in StampSuffixes} \cup {StampDot, StampComma}

\* an answer whose checklist entry carries the value s in the field f
StampedAnswer(f, s) == <<"p", "{", "ck", f>> \o s \o <<"}">>

InitStamp ==
    \E f \in FieldNames, s \in Stamps :
        InitRun("text", Request(None, None, None, FALSE, TRUE, <<>>, SampleTranscript, "", ""),
                {StampedAnswer(f, s)})

\* result documents of at most MaxSegments segments: any of three speaker
\* labels, two start times, and a word that resolves or one that does not
DocItems ==
    <<[start_time |-> 15, alternatives |-> <<"Hello">>],
      [start_time |-> 36625, alternatives |-> <<"Hi">>]>>
DocSegments ==
    {[speaker_label |-> l, start_time |-> st, items |-> <<w>>] :
        l \in {"spk_0", "spk_1", "spk_2"}, st \in {15, 36625}, w \in {15, 99999}}
Docs ==
    {[hasResults |-> TRUE, segments |-> segs, items |-> DocItems] :
        segs \in UNION {[1..n -> DocSegments] : n \in 0..MaxSegments}}

InitFormat ==
    \E d \in Docs :
        InitRunWith("audio",
                    Request(None, None, <<"model-a">>, TRUE, TRUE, <<>>, <<>>, ".mp3", "visit1"),
                    {RespProse}, {d}, NoPeer)

\* two concurrent upload-and-analyze runs: the first as above, the second
\* with a file of the same or of another stem
PeerDoc ==
    [hasResults |-> TRUE,
     segments |-> <<[speaker_label |-> "spk_0", start_time |-> 36700, items |-> <<36700>>]>>,
     items |-> <<[start_time |-> 36700, alternatives |-> <<"Next">>]>>]
PeerStems == {"", "visit1", "visit2"}

InitConcurrent ==
    \E r \in AudioRequests, s \in PeerStems :
        InitRunWith("audio", r, {RespProse}, {DocOk},
                    [NoPeer EXCEPT !.pc = "start", !.stem = s])

(* ---------- helpers of the handlers ---------- *)
Ev(status, message, rid, tkey) ==
    [status |-> status, message |-> message, report_id |-> rid, transcript_key |-> tkey]

Emit(status, message) == events' = Append(events, Ev(status, message, None, None))

\* a failure: the handler's except clause (or early return) yields `error`
Abort(newlog, message) ==
    /\ oplog' = newlog
    /\ abortLen' = IF abortLen = -1 THEN Len(newlog) ELSE abortLen
    /\ events' = Append(events, Ev("error", message, None, None))
    /\ pc' = "done"

\* save_report_to_s3: the record written under reports/<id>.json
Report(rid, tr, text, source, model) ==
    [id |-> rid, source_file |-> source, model_id |-> model,
     transcript |-> tr, report |-> text]

save_report_to_s3(bucket, rid, tr, text, source, model) ==
    PutObject(bucket, ReportKey(rid), Report(rid, tr, text, source, model))

\* str(e) of the exception the remote call raised
UpstreamMessage == "ThrottlingException"

\* bedrock.py lines 98-100: the exception raised in place of the upstream one
GenerationFailed(msg) == "Error calling Bedrock API: " \o msg

\* analyze_transcript_with_bedrock: one call handed to the executor
NewTask(model) ==
    [state |-> "inflight", result |-> <<>>, error |-> "",
     model |-> IF model = None THEN DefaultModel ELSE model]

(* ---------- bedrock.py: one generation call ---------- *)
\* the executor finishes _call_bedrock_sync: the answer text, or an
\* exception that analyze_transcript_with_bedrock wraps and re-raises
TaskComplete(i) ==
    /\ i \in 1..Len(tasks)
    /\ tasks[i].state = "inflight"
    /\ \/ /\ \E t \in svcTexts :
               tasks' = [tasks EXCEPT ![i] = [@ EXCEPT !.state = "ok", !.result = t]]
          /\ UNCHANGED abortLen
       \/ /\ tasks' = [tasks EXCEPT ![i] = [@ EXCEPT !.state = "failed",
                                                   !.error = GenerationFailed(UpstreamMessage)]]
          /\ abortLen' = IF abortLen = -1 THEN Len(oplog) ELSE abortLen
    /\ UNCHANGED <<entry, req, svcTexts, svcDocs, peer, pc, events, oplog, nextUuid, inputBucket,
                   outputBucket, transcript, report_ids_list, report_ids, job,
                   pollReads, audio_key, transcript_key, report_id, report_data>>

(* ---------- main.py: analyze_from_s3_endpoint.generate ---------- *)
\* lines 62-65: read the transcript, clamp the count, yield `processing`
S3Start ==
    /\ pc = "s3_start"
    /\ \/ /\ HasKey(inputBucket, req.file_key)
          /\ transcript' = GetObject(inputBucket, req.file_key)
          /\ oplog' = Append(oplog, "s3_get")
          /\ Emit("processing", "generating_batch")
          /\ pc' = "s3_fanout"
          /\ UNCHANGED abortLen
       \/ /\ Abort(Append(oplog, "s3_get"), "exception")
          /\ UNCHANGED transcript
    /\ UNCHANGED <<entry, req, svcTexts, svcDocs, peer, nextUuid, inputBucket, outputBucket,
                   report_ids_list, report_ids, tasks, job, pollReads, audio_key,
                   transcript_key, report_id, report_data>>

\* lines 68-72: draw the identifiers, start all calls, await gather
S3FanOut ==
    /\ pc = "s3_fanout"
    /\ LET n == BatchCount(req.batch_count)
       IN  /\ report_ids_list' = [i \in 1..n |-> <<Uuid(nextUuid + i - 1)>>]
           /\ nextUuid' = nextUuid + PyMax(n, 0)
           /\ tasks' = [i \in 1..n |-> NewTask(req.model_id)]
           /\ oplog' = oplog \o [i \in 1..n |-> "generate"]
    /\ pc' = "s3_gather"
    /\ UNCHANGED <<entry, req, svcTexts, svcDocs, peer, events, abortLen, inputBucket, outputBucket,
                   transcript, report_ids, job, pollReads, audio_key, transcript_key,
                   report_id, report_data>>

\* line 72: gather re-raises the first exception of a call without waiting
\* for the other calls; lines 83-84 yield `error`
S3GatherRaise ==
    /\ pc = "s3_gather"
    /\ \E i \in 1..Len(tasks) : tasks[i].state = "failed"
    /\ Abort(oplog, tasks[CHOOSE i \in 1..Len(tasks) : tasks[i].state = "failed"].error)
    /\ UNCHANGED <<entry, req, svcTexts, svcDocs, peer, nextUuid, inputBucket, outputBucket,
                   transcript, report_ids_list, report_ids, tasks, job, pollReads,
                   audio_key, transcript_key, report_id, report_data>>

\* mutant: gather collects exceptions as results (return_exceptions=True)
\* and the batch goes on to save once no call is in flight
S3GatherReturnPartial ==
    /\ pc = "s3_gather"
    /\ \A i \in 1..Len(tasks) : tasks[i].state # "inflight"
    /\ IF Len(tasks) = 0
       THEN Abort(oplog, "exception")
       ELSE /\ pc' = "s3_save"
            /\ UNCHANGED <<events, oplog, abortLen>>
    /\ UNCHANGED <<entry, req, svcTexts, svcDocs, peer, nextUuid, inputBucket, outputBucket,
                   transcript, report_ids_list, report_ids, tasks, job, pollReads,
                   audio_key, transcript_key, report_id, report_data>>

\* line 72: gather returns the results once every call has succeeded; with
\* no report saved, report_ids[0] of line 81 raises
S3GatherReturn ==
    /\ pc = "s3_gather"
    /\ \A i \in 1..Len(tasks) : tasks[i].state = "ok"
    /\ IF Len(tasks) = 0
       THEN Abort(oplog, "exception")
       ELSE /\ pc' = "s3_save"
            /\ UNCHANGED <<events, oplog, abortLen>>
    /\ UNCHANGED <<entry, req, svcTexts, svcDocs, peer, nextUuid, inputBucket, outputBucket,
                   transcript, report_ids_list, report_ids, tasks, job, pollReads,
                   audio_key, transcript_key, report_id, report_data>>

\* mutant: the results are not taken in submission order
S3SaveReportMisordered ==
    /\ pc = "s3_save"
    /\ LET k == Len(report_ids) + 1
           rid == report_ids_list[k]
       IN  \/ /\ outputBucket' = save_report_to_s3(outputBucket, rid, transcript,
                                      tasks[Len(tasks) + 1 - k].result, req.file_key,
                                      req.model_id)
              /\ report_ids' = Append(report_ids, StripJsonSuffix(ReportKey(rid)))
              /\ oplog' = Append(oplog, "report_put")
              /\ IF k = PyMin(Len(report_ids_list), Len(tasks))
                 THEN /\ events' = Append(events,
                              Ev("complete",
                                 IF BatchCount(req.batch_count) > 1
                                 THEN "generated_batch" ELSE "analysis_completed",
                                 report_ids'[1], None))
                      /\ pc' = "done"
                 ELSE UNCHANGED <<events, pc>>
              /\ UNCHANGED abortLen
           \/ /\ Abort(Append(oplog, "report_put"), "exception")
              /\ UNCHANGED <<outputBucket, report_ids>>
    /\ UNCHANGED <<entry, req, svcTexts, svcDocs, peer, nextUuid, inputBucket, transcript,
                   report_ids_list, tasks, job, pollReads, audio_key,
                   transcript_key, report_id, report_data>>

\* lines 76-81: one iteration of the save loop; the last one yields `complete`
S3SaveReport ==
    /\ pc = "s3_save"
    /\ LET k == Len(report_ids) + 1
           rid == report_ids_list[k]
       IN  \/ /\ outputBucket' = save_report_to_s3(outputBucket, rid, transcript,
                                      tasks[k].result, req.file_key, req.model_id)
              /\ report_ids' = Append(report_ids, StripJsonSuffix(ReportKey(rid)))
              /\ oplog' = Append(oplog, "report_put")
              /\ IF k = PyMin(Len(report_ids_list), Len(tasks))
                 THEN /\ events' = Append(events,
                              Ev("complete",
                                 IF BatchCount(req.batch_count) > 1
                                 THEN "generated_batch" ELSE "analysis_completed",
                                 report_ids'[1], None))
                      /\ pc' = "done"
                 ELSE UNCHANGED <<events, pc>>
              /\ UNCHANGED abortLen
           \/ /\ Abort(Append(oplog, "report_put"), "exception")
              /\ UNCHANGED <<outputBucket, report_ids>>
    /\ UNCHANGED <<entry, req, svcTexts, svcDocs, peer, nextUuid, inputBucket, transcript,
                   report_ids_list, tasks, job, pollReads, audio_key,
                   transcript_key, report_id, report_data>>

(* ---------- main.py: analyze_transcript_endpoint ---------- *)
\* lines 116-137: read the upload or the form field before streaming
TextEntry ==
    /\ pc = "text_entry"
    /\ IF req.hasFile /\ ~req.decodable
       THEN /\ Abort(oplog, "invalid_file_format")
            /\ UNCHANGED transcript
       ELSE LET transcript_text == IF req.hasFile THEN req.fileText ELSE req.formText
            IN  IF transcript_text = <<>>
                THEN /\ Abort(oplog, "no_transcript")
                     /\ UNCHANGED transcript
                ELSE /\ transcript' = transcript_text
                     /\ pc' = "text_gen"
                     /\ UNCHANGED <<events, oplog, abortLen>>
    /\ UNCHANGED <<entry, req, svcTexts, svcDocs, peer, nextUuid, inputBucket, outputBucket,
                   report_ids_list, report_ids, tasks, job, pollReads, audio_key,
                   transcript_key, report_id, report_data>>

\* line 141
TextYieldAnalyzing ==
    /\ pc = "text_gen"
    /\ Emit("analyzing", "analyzing")
    /\ pc' = "text_invoke"
    /\ UNCHANGED <<entry, req, svcTexts, svcDocs, peer, oplog, abortLen, nextUuid, inputBucket,
                   outputBucket, transcript, report_ids_list, report_ids, tasks, job,
                   pollReads, audio_key, transcript_key, report_id, report_data>>

\* lines 143-144: draw the identifier and start the generation call
TextInvoke ==
    /\ pc = "text_invoke"
    /\ report_id' = <<Uuid(nextUuid)>>
    /\ nextUuid' = nextUuid + 1
    /\ tasks' = <<NewTask(req.model_id)>>
    /\ oplog' = Append(oplog, "generate")
    /\ pc' = "text_await"
    /\ UNCHANGED <<entry, req, svcTexts, svcDocs, peer, events, abortLen, inputBucket, outputBucket,
                   transcript, report_ids_list, report_ids, job, pollReads,
                   audio_key, transcript_key, report_data>>

\* lines 144-146: the call returns (yield `processing`) or raises
\* mutant: `analyzing` is yielded a second time where `processing` belongs
TextAfterGenerateRepeatsAnalyzing ==
    /\ pc = "text_await"
    /\ tasks[1].state # "inflight"
    /\ IF tasks[1].state = "failed"
       THEN Abort(oplog, tasks[1].error)
       ELSE /\ Emit("analyzing", "analyzing")
            /\ pc' = "text_extract"
            /\ UNCHANGED <<oplog, abortLen>>
    /\ UNCHANGED <<entry, req, svcTexts, svcDocs, peer, nextUuid, inputBucket, outputBucket,
                   transcript, report_ids_list, report_ids, tasks, job, pollReads,
                   audio_key, transcript_key, report_id, report_data>>

\* mutant: a failed generation call is issued once more
TextAfterGenerateRetries ==
    /\ pc = "text_await"
    /\ tasks[1].state # "inflight"
    /\ IF tasks[1].state = "failed"
       THEN IF Cardinality({i \in 1..Len(oplog) : oplog[i] = "generate"}) < 2
            THEN /\ tasks' = <<NewTask(req.model_id)>>
                 /\ oplog' = Append(oplog, "generate")
                 /\ UNCHANGED <<pc, events, abortLen>>
            ELSE /\ Abort(oplog, tasks[1].error)
                 /\ UNCHANGED tasks
       ELSE /\ Emit("processing", "processing")
            /\ pc' = "text_extract"
            /\ UNCHANGED <<oplog, abortLen, tasks>>
    /\ UNCHANGED <<entry, req, svcTexts, svcDocs, peer, nextUuid, inputBucket, outputBucket,
                   transcript, report_ids_list, report_ids, job, pollReads,
                   audio_key, transcript_key, report_id, report_data>>

TextAfterGenerate ==
    /\ pc = "text_await"
    /\ tasks[1].state # "inflight"
    /\ IF tasks[1].state = "failed"
       THEN Abort(oplog, tasks[1].error)
       ELSE /\ Emit("processing", "processing")
            /\ pc' = "text_extract"
            /\ UNCHANGED <<oplog, abortLen>>
    /\ UNCHANGED <<entry, req, svcTexts, svcDocs, peer, nextUuid, inputBucket, outputBucket,
                   transcript, report_ids_list, report_ids, tasks, job, pollReads,
                   audio_key, transcript_key, report_id, report_data>>

\* mutant: the `return` after the parse-failure event is missing
TextExtractNoReturn ==
    /\ pc = "text_extract"
    /\ LET r == ExtractResponse(tasks[1].result)
           log == Append(oplog, "extract")
       IN  IF r.outcome = "JSONDecodeError"
           THEN /\ oplog' = log
                /\ abortLen' = IF abortLen = -1 THEN Len(log) ELSE abortLen
                /\ events' = Append(events, Ev("error", "parse_failed", None, None))
                /\ pc' = "text_save"
                /\ UNCHANGED report_data
           ELSE IF r.outcome = "AttributeError"
           THEN /\ Abort(log, "exception")
                /\ UNCHANGED report_data
           ELSE /\ report_data' = r.data
                /\ oplog' = log
                /\ Emit("saving", "saving_report")
                /\ pc' = "text_save"
                /\ UNCHANGED abortLen
    /\ UNCHANGED <<entry, req, svcTexts, svcDocs, peer, nextUuid, inputBucket, outputBucket,
                   transcript, report_ids_list, report_ids, tasks, job, pollReads,
                   audio_key, transcript_key, report_id>>

\* lines 149-175: extract the record, then yield `saving`
TextExtract ==
    /\ pc = "text_extract"
    /\ LET r == ExtractResponse(tasks[1].result)
           log == Append(oplog, "extract")
       IN  IF r.outcome = "JSONDecodeError"
           THEN /\ Abort(log, "parse_failed")
                /\ UNCHANGED report_data
           ELSE IF r.outcome = "AttributeError"
           THEN /\ Abort(log, "exception")
                /\ UNCHANGED report_data
           ELSE /\ report_data' = r.data
                /\ oplog' = log
                /\ Emit("saving", "saving_report")
                /\ pc' = "text_save"
                /\ UNCHANGED abortLen
    /\ UNCHANGED <<entry, req, svcTexts, svcDocs, peer, nextUuid, inputBucket, outputBucket,
                   transcript, report_ids_list, report_ids, tasks, job, pollReads,
                   audio_key, transcript_key, report_id>>

\* mutant: the `complete` event carries the storage key without its suffix
TextSaveKeyAsId ==
    /\ pc = "text_save"
    /\ \/ /\ outputBucket' = save_report_to_s3(outputBucket, report_id, transcript,
                                  JsonDumps(report_data),
                                  IF req.hasFile THEN <<req.filename_stem, req.file_ext>> ELSE None,
                                  req.model_id)
          /\ oplog' = Append(oplog, "report_put")
          /\ events' = Append(events, Ev("complete", "analysis_completed",
                                         StripJsonSuffix(ReportKey(report_id)), None))
          /\ pc' = "done"
          /\ UNCHANGED abortLen
       \/ /\ Abort(Append(oplog, "report_put"), "exception")
          /\ UNCHANGED outputBucket
    /\ UNCHANGED <<entry, req, svcTexts, svcDocs, peer, nextUuid, inputBucket, transcript,
                   report_ids_list, report_ids, tasks, job, pollReads, audio_key,
                   transcript_key, report_id, report_data>>

\* lines 178-180: save the report, yield `complete`
TextSave ==
    /\ pc = "text_save"
    /\ \/ /\ outputBucket' = save_report_to_s3(outputBucket, report_id, transcript,
                                  JsonDumps(report_data),
                                  IF req.hasFile THEN <<req.filename_stem, req.file_ext>> ELSE None,
                                  req.model_id)
          /\ oplog' = Append(oplog, "report_put")
          /\ events' = Append(events, Ev("complete", "analysis_completed", report_id, None))
          /\ pc' = "done"
          /\ UNCHANGED abortLen
       \/ /\ Abort(Append(oplog, "report_put"), "exception")
          /\ UNCHANGED outputBucket
    /\ UNCHANGED <<entry, req, svcTexts, svcDocs, peer, nextUuid, inputBucket, transcript,
                   report_ids_list, report_ids, tasks, job, pollReads, audio_key,
                   transcript_key, report_id, report_data>>

(* ---------- main.py: upload_and_analyze_audio.generate ---------- *)
\* lines 280-284: validate the extension, yield `uploading`
AudioValidate ==
    /\ pc = "audio_validate"
    /\ IF req.file_ext \notin AudioExts
       THEN Abort(oplog, "invalid_audio_format")
       ELSE /\ Emit("uploading", "uploading")
            /\ pc' = "audio_put"
            /\ UNCHANGED <<oplog, abortLen>>
    /\ UNCHANGED <<entry, req, svcTexts, svcDocs, peer, nextUuid, inputBucket, outputBucket,
                   transcript, report_ids_list, report_ids, tasks, job, pollReads,
                   audio_key, transcript_key, report_id, report_data>>

\* lines 286-294: put the audio object, yield `transcribing`
AudioPut ==
    /\ pc = "audio_put"
    /\ audio_key' = <<"audio/", Uuid(nextUuid), req.file_ext>>
    /\ nextUuid' = nextUuid + 1
    /\ \/ /\ inputBucket' = PutObject(inputBucket, audio_key', <<>>)
          /\ oplog' = Append(oplog, "audio_put")
          /\ Emit("transcribing", "transcribing")
          /\ pc' = "tr_start"
          /\ UNCHANGED abortLen
       \/ /\ Abort(Append(oplog, "audio_put"), "exception")
          /\ UNCHANGED inputBucket
    /\ UNCHANGED <<entry, req, svcTexts, svcDocs, peer, outputBucket, transcript, report_ids_list,
                   report_ids, tasks, job, pollReads, transcript_key, report_id,
                   report_data>>

(* ---------- transcribe.py: transcribe_audio_file ---------- *)
\* lines 38-54: name the job, pick the media format, start the job
\* mutant: the loop suspends before its first status read
TrStartSleepFirst ==
    /\ pc = "tr_start"
    /\ nextUuid' = nextUuid + 1
    /\ \/ /\ job' = [name |-> <<"osce-", Uuid(nextUuid)>>, status |-> "SUBMITTED",
                     format |-> MediaFormat(audio_key[Len(audio_key)]), exists |-> TRUE]
          /\ oplog' = Append(oplog, "tr_start")
          /\ pc' = "tr_sleep"
          /\ UNCHANGED <<events, abortLen>>
       \/ /\ Abort(Append(oplog, "tr_start"), "exception")
          /\ UNCHANGED job
    /\ UNCHANGED <<entry, req, svcTexts, svcDocs, peer, inputBucket, outputBucket, transcript,
                   report_ids_list, report_ids, tasks, pollReads, audio_key,
                   transcript_key, report_id, report_data>>

TrStart ==
    /\ pc = "tr_start"
    /\ nextUuid' = nextUuid + 1
    /\ \/ /\ job' = [name |-> <<"osce-", Uuid(nextUuid)>>, status |-> "SUBMITTED",
                     format |-> MediaFormat(audio_key[Len(audio_key)]), exists |-> TRUE]
          /\ oplog' = Append(oplog, "tr_start")
          /\ pc' = "tr_poll"
          /\ UNCHANGED <<events, abortLen>>
       \/ /\ Abort(Append(oplog, "tr_start"), "exception")
          /\ UNCHANGED job
    /\ UNCHANGED <<entry, req, svcTexts, svcDocs, peer, inputBucket, outputBucket, transcript,
                   report_ids_list, report_ids, tasks, pollReads, audio_key,
                   transcript_key, report_id, report_data>>

\* the external service advances the job
JobAdvance ==
    /\ job.exists
    /\ \/ /\ job.status = "SUBMITTED"
          /\ \E st \in {"IN_PROGRESS", "FAILED"} : job' = [job EXCEPT !.status = st]
       \/ /\ job.status = "IN_PROGRESS"
          /\ \E st \in {"COMPLETED", "FAILED"} : job' = [job EXCEPT !.status = st]
    /\ UNCHANGED <<entry, req, svcTexts, svcDocs, peer, pc, events, oplog, abortLen, nextUuid,
                   inputBucket, outputBucket, transcript, report_ids_list, report_ids,
                   tasks, pollReads, audio_key, transcript_key, report_id, report_data>>

\* mutant: the loop is left on FAILED but the failure is not raised
TrPollFailedNotRaised ==
    /\ pc = "tr_poll"
    /\ Len(pollReads) < MaxPolls
    /\ \/ /\ pollReads' = Append(pollReads, job.status)
          /\ oplog' = Append(oplog, "tr_poll")
          /\ pc' = IF job.status \in {"COMPLETED", "FAILED"} THEN "tr_fetch" ELSE "tr_sleep"
          /\ UNCHANGED <<events, abortLen>>
       \/ /\ Abort(Append(oplog, "tr_poll"), "exception")
          /\ UNCHANGED pollReads
    /\ UNCHANGED <<entry, req, svcTexts, svcDocs, peer, nextUuid, inputBucket, outputBucket,
                   transcript, report_ids_list, report_ids, tasks, job, audio_key,
                   transcript_key, report_id, report_data>>

\* mutant: only COMPLETED leaves the loop, a FAILED job is polled on
TrPollOnlyCompletedBreaks ==
    /\ pc = "tr_poll"
    /\ Len(pollReads) < MaxPolls
    /\ \/ /\ pollReads' = Append(pollReads, job.status)
          /\ oplog' = Append(oplog, "tr_poll")
          /\ pc' = IF job.status = "COMPLETED" THEN "tr_fetch" ELSE "tr_sleep"
          /\ UNCHANGED <<events, abortLen>>
       \/ /\ Abort(Append(oplog, "tr_poll"), "exception")
          /\ UNCHANGED pollReads
    /\ UNCHANGED <<entry, req, svcTexts, svcDocs, peer, nextUuid, inputBucket, outputBucket,
                   transcript, report_ids_list, report_ids, tasks, job, audio_key,
                   transcript_key, report_id, report_data>>

\* mutant: the record of a FAILED job is deleted before the failure is raised
TrPollDeletesFailedJob ==
    /\ pc = "tr_poll"
    /\ Len(pollReads) < MaxPolls
    /\ \/ /\ pollReads' = Append(pollReads, job.status)
          /\ IF job.status = "FAILED"
             THEN /\ Abort(oplog \o <<"tr_poll", "tr_delete">>, "transcription_failed")
                  /\ job' = [job EXCEPT !.exists = FALSE]
             ELSE /\ oplog' = Append(oplog, "tr_poll")
                  /\ pc' = IF job.status = "COMPLETED" THEN "tr_fetch" ELSE "tr_sleep"
                  /\ UNCHANGED <<events, abortLen, job>>
       \/ /\ Abort(Append(oplog, "tr_poll"), "exception")
          /\ UNCHANGED <<pollReads, job>>
    /\ UNCHANGED <<entry, req, svcTexts, svcDocs, peer, nextUuid, inputBucket, outputBucket,
                   transcript, report_ids_list, report_ids, tasks, audio_key,
                   transcript_key, report_id, report_data>>

\* lines 57-66: one status read; leave the loop on a terminal status and
\* raise on FAILED
TrPoll ==
    /\ pc = "tr_poll"
    /\ Len(pollReads) < MaxPolls
    /\ \/ /\ pollReads' = Append(pollReads, job.status)
          /\ IF job.status = "FAILED"
             THEN Abort(Append(oplog, "tr_poll"), "transcription_failed")
             ELSE /\ oplog' = Append(oplog, "tr_poll")
                  /\ pc' = IF job.status = "COMPLETED" THEN "tr_fetch" ELSE "tr_sleep"
                  /\ UNCHANGED <<events, abortLen>>
       \/ /\ Abort(Append(oplog, "tr_poll"), "exception")
          /\ UNCHANGED pollReads
    /\ UNCHANGED <<entry, req, svcTexts, svcDocs, peer, nextUuid, inputBucket, outputBucket,
                   transcript, report_ids_list, report_ids, tasks, job, audio_key,
                   transcript_key, report_id, report_data>>

\* line 63: await asyncio.sleep(5)
TrSleep ==
    /\ pc = "tr_sleep"
    /\ oplog' = Append(oplog, "sleep")
    /\ pc' = "tr_poll"
    /\ UNCHANGED <<entry, req, svcTexts, svcDocs, peer, events, abortLen, nextUuid, inputBucket,
                   outputBucket, transcript, report_ids_list, report_ids, tasks, job,
                   pollReads, audio_key, transcript_key, report_id, report_data>>

\* lines 68-71: fetch the result document and format it
TrFetchFormat ==
    /\ pc = "tr_fetch"
    /\ \/ \E data \in svcDocs :
             IF FormatRaises(data)
             THEN /\ Abort(oplog \o <<"tr_fetch", "format">>, "exception")
                  /\ UNCHANGED transcript
             ELSE /\ transcript' = format_transcript(data)
                  /\ oplog' = oplog \o <<"tr_fetch", "format">>
                  /\ pc' = "tr_delete"
                  /\ UNCHANGED <<events, abortLen>>
       \/ /\ Abort(Append(oplog, "tr_fetch"), "exception")
          /\ UNCHANGED transcript
    /\ UNCHANGED <<entry, req, svcTexts, svcDocs, peer, nextUuid, inputBucket, outputBucket,
                   report_ids_list, report_ids, tasks, job, pollReads, audio_key,
                   transcript_key, report_id, report_data>>

\* mutant: the job is never deleted
TrDeleteSkipped ==
    /\ pc = "tr_delete"
    /\ Emit("saving", "saving_transcript")
    /\ pc' = "audio_save_transcript"
    /\ UNCHANGED <<entry, req, svcTexts, svcDocs, peer, oplog, abortLen, nextUuid, inputBucket,
                   outputBucket, transcript, report_ids_list, report_ids, tasks, job,
                   pollReads, audio_key, transcript_key, report_id, report_data>>

\* lines 73-75 and main.py line 301: delete the job, return the transcript,
\* yield `saving`; an exception of the delete call is not caught
TrDelete ==
    /\ pc = "tr_delete"
    /\ \/ /\ job' = [job EXCEPT !.exists = FALSE]
          /\ oplog' = Append(oplog, "tr_delete")
          /\ Emit("saving", "saving_transcript")
          /\ pc' = "audio_save_transcript"
          /\ UNCHANGED abortLen
       \/ /\ Abort(Append(oplog, "tr_delete"), "exception")
          /\ UNCHANGED job
    /\ UNCHANGED <<entry, req, svcTexts, svcDocs, peer, nextUuid, inputBucket, outputBucket,
                   transcript, report_ids_list, report_ids, tasks, pollReads,
                   audio_key, transcript_key, report_id, report_data>>

\* filename_stem if filename_stem else 'recording'
OriginalFilename == IF req.filename_stem = "" THEN "recording" ELSE req.filename_stem

\* mutant: a failure of the transcript put is swallowed and the run goes on
AudioSaveTranscriptSwallow ==
    /\ pc = "audio_save_transcript"
    /\ transcript_key' = <<"transcripts/", OriginalFilename, ".txt">>
    /\ \/ /\ inputBucket' = PutObject(inputBucket, transcript_key', transcript)
          /\ UNCHANGED abortLen
       \/ /\ abortLen' = IF abortLen = -1 THEN Len(oplog) + 1 ELSE abortLen
          /\ UNCHANGED inputBucket
    /\ oplog' = Append(oplog, "transcript_put")
    /\ Emit("analyzing", "analyzing")
    /\ pc' = "audio_invoke"
    /\ UNCHANGED <<entry, req, svcTexts, svcDocs, peer, nextUuid, outputBucket, transcript,
                   report_ids_list, report_ids, tasks, job, pollReads, audio_key,
                   report_id, report_data>>

\* mutant: the transcript is not stored before the generation call
AudioSaveTranscriptSkipped ==
    /\ pc = "audio_save_transcript"
    /\ transcript_key' = <<"transcripts/", OriginalFilename, ".txt">>
    /\ Emit("analyzing", "analyzing")
    /\ pc' = "audio_invoke"
    /\ UNCHANGED <<entry, req, svcTexts, svcDocs, peer, oplog, abortLen, nextUuid, inputBucket,
                   outputBucket, transcript, report_ids_list, report_ids, tasks, job,
                   pollReads, audio_key, report_id, report_data>>

\* lines 304-319: put the transcript object, yield `analyzing`
AudioSaveTranscript ==
    /\ pc = "audio_save_transcript"
    /\ transcript_key' = <<"transcripts/", OriginalFilename, ".txt">>
    /\ \/ /\ inputBucket' = PutObject(inputBucket, transcript_key', transcript)
          /\ oplog' = Append(oplog, "transcript_put")
          /\ Emit("analyzing", "analyzing")
          /\ pc' = "audio_invoke"
          /\ UNCHANGED abortLen
       \/ /\ Abort(Append(oplog, "transcript_put"), "exception")
          /\ UNCHANGED inputBucket
    /\ UNCHANGED <<entry, req, svcTexts, svcDocs, peer, nextUuid, outputBucket, transcript,
                   report_ids_list, report_ids, tasks, job, pollReads, audio_key,
                   report_id, report_data>>

\* lines 322-323: draw the identifier and start the generation call
AudioInvoke ==
    /\ pc = "audio_invoke"
    /\ report_id' = <<Uuid(nextUuid)>>
    /\ nextUuid' = nextUuid + 1
    /\ tasks' = <<NewTask(req.model_id)>>
    /\ oplog' = Append(oplog, "generate")
    /\ pc' = "audio_await"
    /\ UNCHANGED <<entry, req, svcTexts, svcDocs, peer, events, abortLen, inputBucket, outputBucket,
                   transcript, report_ids_list, report_ids, job, pollReads,
                   audio_key, transcript_key, report_data>>

\* lines 323-357: the call returns or raises; extract, save, yield `complete`
AudioFinish ==
    /\ pc = "audio_await"
    /\ tasks[1].state # "inflight"
    /\ IF tasks[1].state = "failed"
       THEN /\ Abort(oplog, tasks[1].error)
            /\ UNCHANGED <<report_data, outputBucket>>
       ELSE LET r == ExtractOutcome[tasks[1].result]
                log == Append(oplog, "extract")
            IN  IF r.outcome = "JSONDecodeError"
                THEN /\ Abort(log, "parse_failed")
                     /\ UNCHANGED <<report_data, outputBucket>>
                ELSE IF r.outcome = "AttributeError"
                THEN /\ Abort(log, "exception")
                     /\ UNCHANGED <<report_data, outputBucket>>
                ELSE /\ report_data' = r.data
                     /\ \/ /\ outputBucket' = save_report_to_s3(outputBucket, report_id,
                                                   transcript, JsonDumps(r.data),
                                                   <<OriginalFilename, req.file_ext>>,
                                                   req.model_id)
                           /\ oplog' = Append(log, "report_put")
                           /\ events' = Append(events,
                                   Ev("complete", "analysis_completed", report_id, transcript_key))
                           /\ pc' = "done"
                           /\ UNCHANGED abortLen
                        \/ /\ Abort(Append(log, "report_put"), "exception")
                           /\ UNCHANGED outputBucket
    /\ UNCHANGED <<entry, req, svcTexts, svcDocs, peer, nextUuid, inputBucket, transcript,
                   report_ids_list, report_ids, tasks, job, pollReads, audio_key,
                   transcript_key, report_id>>

(* ---------- main.py: a second run of upload_and_analyze_audio ---------- *)
\* The second run is followed through the steps that touch the storage it
\* shares with the first run; its transcription job and its generation call
\* are its own and succeed.
\* lines 286-298: put the audio under a fresh key, transcribe it
PeerTranscribe ==
    /\ peer.pc = "start"
    /\ inputBucket' = PutObject(inputBucket, <<"audio/", Uuid(nextUuid), ".mp3">>, <<>>)
    /\ nextUuid' = nextUuid + 2
    /\ peer' = [peer EXCEPT !.pc = "transcribed", !.transcript = format_transcript(PeerDoc)]
    /\ UNCHANGED <<entry, req, svcTexts, svcDocs, pc, events, oplog, abortLen,
                   outputBucket, transcript, report_ids_list, report_ids, tasks, job,
                   pollReads, audio_key, transcript_key, report_id, report_data>>

\* lines 304-312: put the transcript under transcripts/<stem>.txt
PeerSaveTranscript ==
    /\ peer.pc = "transcribed"
    /\ LET key == <<"transcripts/", IF peer.stem = "" THEN "recording" ELSE peer.stem, ".txt">>
       IN  /\ inputBucket' = PutObject(inputBucket, key, peer.transcript)
           /\ peer' = [peer EXCEPT !.pc = "saved", !.transcript_key = key]
    /\ UNCHANGED <<entry, req, svcTexts, svcDocs, pc, events, oplog, abortLen, nextUuid,
                   outputBucket, transcript, report_ids_list, report_ids, tasks, job,
                   pollReads, audio_key, transcript_key, report_id, report_data>>

\* lines 322-354: generate and extract the report, save it, yield `complete`
\* with the transcript key
PeerFinish ==
    /\ peer.pc = "saved"
    /\ outputBucket' = save_report_to_s3(outputBucket, <<Uuid(nextUuid)>>, peer.transcript,
                                         JsonDumps(ExtractOutcome[RespProse].data),
                                         <<IF peer.stem = "" THEN "recording" ELSE peer.stem, ".mp3">>,
                                         req.model_id)
    /\ nextUuid' = nextUuid + 1
    /\ peer' = [peer EXCEPT !.pc = "done", !.report_id = <<Uuid(nextUuid)>>,
                            !.complete_key = peer.transcript_key]
    /\ UNCHANGED <<entry, req, svcTexts, svcDocs, pc, events, oplog, abortLen,
                   inputBucket, transcript, report_ids_list, report_ids, tasks, job,
                   pollReads, audio_key, transcript_key, report_id, report_data>>

(* ---------- specifications ---------- *)
Next ==
    \/ \E i \in 1..Len(tasks) : TaskComplete(i)
    \/ S3Start
    \/ S3FanOut
    \/ S3GatherRaise
    \/ S3GatherReturn
    \/ S3SaveReport
    \/ TextEntry
    \/ TextYieldAnalyzing
    \/ TextInvoke
    \/ TextAfterGenerate
    \/ TextExtract
    \/ TextSave
    \/ AudioValidate
    \/ AudioPut
    \/ TrStart
    \/ JobAdvance
    \/ TrPoll
    \/ TrSleep
    \/ TrFetchFormat
    \/ TrDelete
    \/ AudioSaveTranscript
    \/ AudioInvoke
    \/ AudioFinish

Spec == Init /\ [][Next]_vars

\* the text-only entry point alone, over every short answer text
NextExtract ==
    \/ \E i \in 1..Len(tasks) : TaskComplete(i)
    \/ TextEntry
    \/ TextYieldAnalyzing
    \/ TextInvoke
    \/ TextAfterGenerate
    \/ TextExtract
    \/ TextSave

SpecExtract == InitExtract /\ [][NextExtract]_vars

\* the text-only entry point alone, over the timestamp values
SpecStamp == InitStamp /\ [][NextExtract]_vars

\* the upload-and-analyze entry point alone
InitUpload == \E r \in AudioRequests : InitRun("audio", r, Responses)

NextUpload ==
    \/ \E i \in 1..Len(tasks) : TaskComplete(i)
    \/ AudioValidate
    \/ AudioPut
    \/ TrStart
    \/ JobAdvance
    \/ TrPoll
    \/ TrSleep
    \/ TrFetchFormat
    \/ TrDelete
    \/ AudioSaveTranscript
    \/ AudioInvoke
    \/ AudioFinish

\* the event loop keeps running the handler (every enabled step is
\* eventually taken: awaited calls return), and the transcription service
\* keeps working on a job until it is COMPLETED or FAILED
SpecLive ==
    InitUpload /\ [][NextUpload]_vars /\ WF_vars(NextUpload) /\ WF_vars(JobAdvance)

\* the upload-and-analyze entry point alone, over the result documents
SpecFormat == InitFormat /\ [][NextUpload]_vars

\* two upload-and-analyze runs, interleaved in any way
NextConcurrent ==
    \/ NextUpload
    \/ PeerTranscribe
    \/ PeerSaveTranscript
    \/ PeerFinish

SpecConcurrent == InitConcurrent /\ [][NextConcurrent]_vars

\* the batch entry point alone, over the wide range of requested counts
NextBatch ==
    \/ \E i \in 1..Len(tasks) : TaskComplete(i)
    \/ S3Start
    \/ S3FanOut
    \/ S3GatherRaise
    \/ S3GatherReturn
    \/ S3SaveReport

SpecBatch == InitBatch /\ [][NextBatch]_vars

(* ---------- properties ---------- *)
Done == pc = "done"
LastEv == events[Len(events)]
TerminalIdx == {i \in 1..Len(events) : events[i].status \in TerminalStatus}
ErrorIdx == {i \in 1..Len(events) : events[i].status = "error"}
CompleteIdx == {i \in 1..Len(events) : events[i].status = "complete"}
OpIdx(op) == {i \in 1..Len(oplog) : oplog[i] = op}
OpCount(op) == Cardinality(OpIdx(op))
FailedTasks == {i \in 1..Len(tasks) : tasks[i].state = "failed"}
InflightTasks == {i \in 1..Len(tasks) : tasks[i].state = "inflight"}
OkTasks == {i \in 1..Len(tasks) : tasks[i].state = "ok"}

\* C1: every persisted Report was saved after the extractor succeeded on the
\* model response, and its report field is a JSON object with a checklist
\* key; no raw model response is persisted.
C1_ReportsAreExtracted ==
    \A o \in outputBucket :
        /\ OpIdx("extract") # {}
        /\ JsonLoads(o.body.report).kind = "object"
        /\ JsonLoads(o.body.report).checklist

\* C2: a progress stream holds at most one terminal event (complete or
\* error), that event is its last one, nothing is emitted after it, and a
\* stream that has ended holds one.
C2_OneTerminalEventLast ==
    /\ Cardinality(TerminalIdx) <= 1
    /\ TerminalIdx # {} => TerminalIdx = {Len(events)}
    /\ Done => TerminalIdx # {}
    /\ TerminalIdx # {} => Done

C2_Witness ==
    /\ entry = "text"
    /\ Done
    /\ Len(events) = 3
    /\ LastEv.status = "error"
    /\ LastEv.message = "parse_failed"

\* C3: the report_id of a complete event is the id field of a Report stored
\* by the run (for a batch, the first identifier in submission order), and
\* reading the report by that identifier returns the stored record.
C3_CompleteIdIsStoredId ==
    \A i \in CompleteIdx :
        LET rid == events[i].report_id
        IN  /\ HasKey(outputBucket, ReportKey(rid))
            /\ GetObject(outputBucket, ReportKey(rid)).id = rid
            /\ entry = "s3" => rid = report_ids_list[1]

\* C4: after the first failing step of a run no further external call is
\* issued, and the run that has ended after a failure has emitted exactly
\* one error event, as its last event.
C4_FailureAborts ==
    abortLen # -1 =>
        /\ \A i \in (abortLen + 1)..Len(oplog) : oplog[i] \notin ExternalOps
        /\ CompleteIdx = {}
        /\ Done => ErrorIdx = {Len(events)}

C4_Witness ==
    /\ entry = "audio"
    /\ Done
    /\ Len(oplog) > 0
    /\ abortLen = Len(oplog)
    /\ oplog[Len(oplog)] = "tr_poll"
    /\ LastEv.message = "transcription_failed"
    /\ Len(pollReads) >= 2

\* C5: a run whose stream ends with error has left no object written to
\* storage: no audio object, no transcript object, no Report.
C5_NothingPersistedOnError ==
    (Done /\ LastEv.status = "error") =>
        /\ inputBucket = InitInputBucket
        /\ outputBucket = {}

\* C6: in analyze-from-s3, once a generation call has failed no Report of
\* the batch is saved and no complete event is emitted, the ended stream
\* ends with error, and a complete event is emitted only when all N calls
\* succeeded.
C6_BatchAllOrNothing ==
    entry = "s3" =>
        /\ FailedTasks # {} =>
              /\ outputBucket = {}
              /\ CompleteIdx = {}
              /\ Done => LastEv.status = "error"
        /\ CompleteIdx # {} =>
              /\ Len(tasks) >= 1
              /\ OkTasks = 1..Len(tasks)

C6_Witness ==
    /\ entry = "s3"
    /\ Done
    /\ FailedTasks # {}
    /\ OkTasks # {}
    /\ LastEv.status = "error"
    /\ outputBucket = {}

\* C7: no generation call of the batch is still in flight when the run
\* emits its terminal event.
C7_NoCallInFlightAtTerminalEvent ==
    (entry = "s3" /\ TerminalIdx # {}) => InflightTasks = {}

\* the count the batch entry point is specified to use
ClampedCount(c) ==
    IF c = None THEN 1
    ELSE IF c[1] <= 0 THEN 1
    ELSE IF c[1] > 10 THEN 10
    ELSE c[1]

FannedOut == entry = "s3" /\ pc \notin {"s3_start", "s3_fanout"} /\ Len(events) >= 1
                /\ events[1].status = "processing"

\* C8: the number of generation calls issued by a batch run is the requested
\* count clamped to [1, 10]: 1 for an absent, zero or negative count, 10 for
\* a count above 10, the count itself otherwise.
C8_CallsAreClampedCount ==
    /\ FannedOut =>
          /\ Len(tasks) = ClampedCount(req.batch_count)
          /\ OpCount("generate") = ClampedCount(req.batch_count)
          /\ Len(report_ids_list) = ClampedCount(req.batch_count)
    /\ (entry = "s3" /\ ~FannedOut) => OpCount("generate") = 0

C8_Witness ==
    /\ FannedOut
    /\ req.batch_count = <<11>>
    /\ Len(tasks) = 10
    /\ Done
    /\ LastEv.status = "complete"

\* C9: when all N calls of a batch succeeded and the run has ended with
\* complete, exactly N Reports are stored, under N pairwise distinct
\* identifiers, each holding the source transcript, the i-th identifier
\* holding the result of the i-th submitted call; while the reports are
\* being saved, the ones stored so far are paired in the same way.
C9_BatchReportsPaired ==
    (entry = "s3" /\ (pc = "s3_save" \/ CompleteIdx # {})) =>
        LET n == Len(tasks)
            k == Len(report_ids)
        IN  /\ OkTasks = 1..n
            /\ Len(report_ids_list) = n
            /\ CompleteIdx # {} => k = n
            /\ Cardinality(outputBucket) = k
            /\ \A i, j \in 1..n : i # j => report_ids_list[i] # report_ids_list[j]
            /\ \A i \in 1..k :
                  /\ HasKey(outputBucket, ReportKey(report_ids_list[i]))
                  /\ LET r == GetObject(outputBucket, ReportKey(report_ids_list[i]))
                     IN  /\ r.id = report_ids_list[i]
                         /\ r.transcript = GetObject(InitInputBucket, req.file_key)
                         /\ r.report = tasks[i].result

C9_Witness ==
    /\ entry = "s3"
    /\ CompleteIdx # {}
    /\ Len(tasks) = 3
    /\ tasks[1].result # tasks[2].result
    /\ tasks[2].result # tasks[3].result
    /\ Cardinality(outputBucket) = 3

TranscribeReturned ==
    entry = "audio" /\ (pc \in {"audio_save_transcript", "audio_invoke", "audio_await"}
                         \/ OpIdx("transcript_put") # {})

\* C10: transcribe_audio_file fetches the result document at most once and
\* only after a status read of COMPLETED that follows non-terminal reads,
\* formats it at most once and issues at most one delete call, after the
\* fetch and the formatting; when it returns the transcript it has done
\* each of the three exactly once.
C10_CompletedJobFetchFormatDeleteOnce ==
    entry = "audio" =>
        /\ OpCount("tr_fetch") <= 1
        /\ OpCount("format") <= 1
        /\ OpCount("tr_delete") <= 1
        /\ OpIdx("tr_fetch") # {} =>
              /\ pollReads # <<>>
              /\ pollReads[Len(pollReads)] = "COMPLETED"
              /\ \A i \in 1..(Len(pollReads) - 1) : pollReads[i] \in {"SUBMITTED", "IN_PROGRESS"}
        /\ \A d \in OpIdx("tr_delete") :
              /\ \E f \in OpIdx("tr_fetch") : f < d
              /\ \E f \in OpIdx("format") : f < d
        /\ \A f \in OpIdx("format") : \E g \in OpIdx("tr_fetch") : g < f
        /\ TranscribeReturned =>
              /\ OpCount("tr_fetch") = 1
              /\ OpCount("format") = 1
              /\ OpCount("tr_delete") = 1
              /\ ~job.exists

C10_Witness ==
    /\ pc = "audio_save_transcript"
    /\ pollReads = <<"SUBMITTED", "IN_PROGRESS", "COMPLETED">>
    /\ OpCount("tr_delete") = 1
    /\ transcript # <<>>

ReadFailed == entry = "audio" /\ pollReads # <<>> /\ pollReads[Len(pollReads)] = "FAILED"

\* C11: once the poll loop has read FAILED, transcribe_audio_file has raised
\* the transcription-failed error: the run has ended with that error event,
\* no result document is fetched or formatted, no transcript is returned or
\* stored, no generation call is issued and no Report is persisted.
C11_FailedJobYieldsNothing ==
    ReadFailed =>
        /\ Done
        /\ LastEv.status = "error"
        /\ LastEv.message = "transcription_failed"
        /\ OpIdx("tr_fetch") = {}
        /\ OpIdx("format") = {}
        /\ OpIdx("tr_delete") = {}
        /\ OpIdx("transcript_put") = {}
        /\ OpIdx("generate") = {}
        /\ transcript = <<>>
        /\ tasks = <<>>
        /\ outputBucket = {}

C11_Witness ==
    /\ ReadFailed
    /\ Len(pollReads) >= 2
    /\ pollReads[1] = "SUBMITTED"
    /\ Done

\* C12: a failure of the delete call is not fatal: once the delete call has
\* been issued (the result is fetched and formatted), transcribe_audio_file
\* returns the transcript, so the run goes on to store it and does not end
\* with an error event because of the delete.
C12_DeleteIsBestEffort ==
    (entry = "audio" /\ OpIdx("tr_delete") # {}) =>
        /\ ~(abortLen > 0 /\ oplog[abortLen] = "tr_delete")
        /\ pc # "done" \/ OpIdx("transcript_put") # {}

\* no `{` precedes a `}` anywhere in the text
NoBracePair(s) == ~ \E i, j \in 1..Len(s) : i < j /\ s[i] = "{" /\ s[j] = "}"

\* C13: in the single-report entry points, once the extractor has run on a
\* response text with no `{`...`}` pair (valid non-object JSON such as `[]`
\* included), the run has ended with the parse-failure error event and no
\* Report is persisted.
C13_NoBracePairIsParseFailure ==
    (/\ entry \in {"text", "audio"}
     /\ OpIdx("extract") # {}
     /\ NoBracePair(tasks[1].result)) =>
        /\ Done
        /\ LastEv.status = "error"
        /\ LastEv.message = "parse_failed"
        /\ outputBucket = {}

\* the transcript as submitted to analyze-transcript: the decoded upload, or
\* the form field
SubmittedTranscript == IF req.hasFile THEN req.fileText ELSE req.formText

\* C14: a text-only run that has ended with `complete` has persisted exactly
\* one Report, whose transcript is the submitted transcript and whose id is
\* the report_id of the `complete` event; a text-only run that has ended
\* with `error` has persisted no Report.
C14_TextRunPersistsOneReportOrNone ==
    (entry = "text" /\ Done) =>
        IF LastEv.status = "complete"
        THEN /\ Cardinality(outputBucket) = 1
             /\ \A o \in outputBucket :
                    /\ o.key = ReportKey(LastEv.report_id)
                    /\ o.body.id = LastEv.report_id
                    /\ o.body.transcript = SubmittedTranscript
                    /\ o.body.transcript # <<>>
        ELSE /\ LastEv.status = "error"
             /\ outputBucket = {}

C14_Witness ==
    /\ entry = "text"
    /\ Done
    /\ LastEv.status = "complete"
    /\ req.hasFile
    /\ Cardinality(outputBucket) = 1

\* the stage vocabulary, in order
StageOrder ==
    <<"uploading", "transcribing", "saving", "analyzing", "processing", "saving", "complete">>

\* s is t with some elements left out, the order kept
RECURSIVE IsSubsequence(_, _)
IsSubsequence(s, t) ==
    IF s = <<>> THEN TRUE
    ELSE IF t = <<>> THEN FALSE
    ELSE IF s[1] = t[1] THEN IsSubsequence(Tail(s), Tail(t))
    ELSE IsSubsequence(s, Tail(t))

\* the status tokens emitted so far, error events left out
NonErrorStatuses ==
    LET ne == SelectSeq(events, LAMBDA e : e.status # "error")
    IN  [i \in 1..Len(ne) |-> ne[i].status]

\* C15: in every run of every entry point the non-error status tokens
\* emitted are an order-preserving subsequence of uploading, transcribing,
\* saving, analyzing, processing, saving, complete.
C15_StatusesFollowStageOrder == IsSubsequence(NonErrorStatuses, StageOrder)

C15_Witness ==
    /\ entry = "audio"
    /\ Done
    /\ NonErrorStatuses = <<"uploading", "transcribing", "saving", "analyzing", "complete">>

C15_WitnessText ==
    /\ entry = "text"
    /\ Done
    /\ NonErrorStatuses = <<"analyzing", "processing", "saving", "complete">>

\* position of a step in the order of an upload-and-analyze run; 0 for the
\* steps the order does not list (sleep, format, delete of the job)
AudioStage(op) ==
    CASE op = "audio_put" -> 1
      [] op = "tr_start" -> 2
      [] op = "tr_poll" -> 3
      [] op = "tr_fetch" -> 4
      [] op = "transcript_put" -> 5
      [] op = "generate" -> 6
      [] op = "extract" -> 7
      [] op = "report_put" -> 8
      [] OTHER -> 0

ListedOps == SelectSeq(oplog, LAMBDA op : AudioStage(op) > 0)

\* C16: in an upload-and-analyze run the calls occur in the order audio
\* put, job submit, status polls, result fetch, transcript put, one
\* generation call, extraction, report save, `complete`; none is skipped or
\* repeated (polls apart), each is issued only after the previous one
\* succeeded, the generation call only with the transcript obtained, and
\* the report save only after a successful extraction.
C16_UploadCallOrder ==
    entry = "audio" =>
        /\ ListedOps # <<>> => AudioStage(ListedOps[1]) = 1
        /\ \A i \in 1..(Len(ListedOps) - 1) :
              LET a == AudioStage(ListedOps[i])
                  b == AudioStage(ListedOps[i + 1])
              IN  b = a + 1 \/ (a = 3 /\ b = 3)
        /\ abortLen \in {-1, Len(oplog)}
        /\ OpIdx("tr_fetch") # {} =>
              pollReads # <<>> /\ pollReads[Len(pollReads)] = "COMPLETED"
        /\ OpIdx("generate") # {} =>
              /\ OpIdx("format") # {}
              /\ HasKey(inputBucket, transcript_key)
              /\ GetObject(inputBucket, transcript_key) = transcript
        /\ OpIdx("report_put") # {} =>
              /\ tasks[1].state = "ok"
              /\ ExtractResponse(tasks[1].result).outcome = "ok"
        /\ CompleteIdx # {} =>
              /\ abortLen = -1
              /\ oplog[Len(oplog)] = "report_put"
              /\ CompleteIdx = {Len(events)}

C16_Witness ==
    /\ entry = "audio"
    /\ CompleteIdx # {}
    /\ Len(pollReads) >= 2
    /\ Len(ListedOps) >= 9

\* the status reads and suspensions of the poll loop, in order
LoopLog == SelectSeq(oplog, LAMBDA op : op \in {"tr_poll", "sleep"})

\* line 60: the statuses on which the loop is left
TerminalJobStatus == {"COMPLETED", "FAILED"}

ReadTerminal == pollReads # <<>> /\ pollReads[Len(pollReads)] \in TerminalJobStatus

\* C17: the poll loop reads the status first, suspends exactly once between
\* two consecutive reads, and neither reads nor suspends after the first
\* read that returned COMPLETED or FAILED: a job seen terminal on the k-th
\* read has caused exactly k reads and k-1 suspensions.
C17_PollLoopShape ==
    entry = "audio" =>
        /\ \A i \in 1..Len(LoopLog) :
              LoopLog[i] = IF i % 2 = 1 THEN "tr_poll" ELSE "sleep"
        /\ \A i \in 1..(Len(pollReads) - 1) : pollReads[i] \notin TerminalJobStatus
        /\ OpCount("tr_poll") \in {Len(pollReads), Len(pollReads) + 1}
        /\ ReadTerminal =>
              /\ pc \notin {"tr_poll", "tr_sleep"}
              /\ OpCount("tr_poll") = Len(pollReads)
              /\ OpCount("sleep") = Len(pollReads) - 1

C17_Witness ==
    /\ entry = "audio"
    /\ Len(pollReads) = 3
    /\ pollReads[3] = "COMPLETED"
    /\ OpCount("sleep") = 2
    /\ OpIdx("tr_fetch") # {}

InPollLoop == pc \in {"tr_poll", "tr_sleep"}

\* the model's cap on status reads is used up by non-terminal reads
PollsExhausted == InPollLoop /\ Len(pollReads) = MaxPolls /\ ~ReadTerminal

\* the loop is left only by a read that returned COMPLETED or FAILED, or by
\* an exception of the status call
LoopLeftOnlyOnTerminalRead ==
    (InPollLoop /\ ~InPollLoop') =>
        /\ pc = "tr_poll"
        /\ \/ /\ Len(pollReads') = Len(pollReads) + 1
              /\ ReadTerminal'
           \/ /\ pollReads' = pollReads
              /\ pc' = "done"
              /\ abortLen' = Len(oplog')

\* C18: with a job that eventually reports COMPLETED or FAILED and calls
\* that return, an upload-and-analyze run eventually emits its terminal
\* event (within the model's cap on status reads); the poll loop has no
\* attempt limit of its own: it is never left while the reads are
\* non-terminal.
C18_PollLoopRunsToCompletion ==
    /\ (entry = "audio") ~> (Done \/ PollsExhausted)
    /\ (entry = "audio" /\ job.status \in TerminalJobStatus /\ Len(pollReads) < MaxPolls)
           ~> (Done /\ Len(events) > 0 /\ LastEv.status \in TerminalStatus)
    /\ [][LoopLeftOnlyOnTerminalRead]_vars

C18_Witness ==
    /\ entry = "audio"
    /\ Done
    /\ Len(pollReads) = MaxPolls
    /\ ReadTerminal
    /\ LastEv.status = "complete"

\* the number of generation requests a run sends once it reaches generation
ExpectedCalls == IF entry = "s3" THEN ClampedCount(req.batch_count) ELSE 1

\* C19: no failure is retried: a run sends no generation request before it
\* reaches generation and exactly 1 (single-report entry points) or the
\* clamped count (batch) from then on, whatever the calls return; a failed
\* call ends the run with one error event whose message is the upstream
\* message wrapped by analyze_transcript_with_bedrock.
C19_NoRetryOneWrappedError ==
    /\ OpCount("generate") = IF tasks = <<>> THEN 0 ELSE ExpectedCalls
    /\ Len(tasks) = OpCount("generate")
    /\ \A i \in FailedTasks : tasks[i].error = GenerationFailed(UpstreamMessage)
    /\ (Done /\ FailedTasks # {}) =>
          /\ ErrorIdx = {Len(events)}
          /\ CompleteIdx = {}
          /\ LastEv.message = "Error calling Bedrock API: ThrottlingException"
    /\ (Done /\ OpIdx("extract") # {}) => OpCount("generate") = 1

C19_Witness ==
    /\ entry = "text"
    /\ Done
    /\ FailedTasks = {1}
    /\ OpCount("generate") = 1
    /\ LastEv.status = "error"

C19_WitnessRejected ==
    /\ entry = "audio"
    /\ Done
    /\ OpIdx("extract") # {}
    /\ LastEv.message = "parse_failed"
    /\ OpCount("generate") = 1

C19_WitnessBatch ==
    /\ entry = "s3"
    /\ Done
    /\ Cardinality(FailedTasks) = 2
    /\ OpCount("generate") = 3

\* the reference chain: trim
RECURSIVE RefTrimLeft(_)
RefTrimLeft(s) == IF s # <<>> /\ Head(s) = "ws" THEN RefTrimLeft(Tail(s)) ELSE s

RECURSIVE RefTrimRight(_)
RefTrimRight(s) ==
    IF s # <<>> /\ s[Len(s)] = "ws" THEN RefTrimRight(SubSeq(s, 1, Len(s) - 1)) ELSE s

\* the tokens of s up to the first fence, all of s when it has none
RECURSIVE RefUpToFence(_)
RefUpToFence(s) ==
    IF s = <<>> \/ Head(s) = "fence" THEN <<>> ELSE <<Head(s)>> \o RefUpToFence(Tail(s))

\* the interior of the first fenced block, JSON-marked when json is TRUE
RECURSIVE RefInterior(_, _)
RefInterior(s, json) ==
    IF s = <<>> THEN <<>>
    ELSE IF Head(s) = "fence" /\ (~json \/ (Len(s) >= 2 /\ s[2] = "json"))
         THEN RefUpToFence(SubSeq(s, IF json THEN 3 ELSE 2, Len(s)))
         ELSE RefInterior(Tail(s), json)

RefHasJsonFence(s) == \E i \in 1..(Len(s) - 1) : s[i] = "fence" /\ s[i + 1] = "json"
RefHasFence(s) == \E i \in 1..Len(s) : s[i] = "fence"

RefUnfenced(s) ==
    IF RefHasJsonFence(s) THEN RefInterior(s, TRUE)
    ELSE IF RefHasFence(s) THEN RefInterior(s, FALSE)
    ELSE s

\* the span from the first `{` to the last `}` when the first precedes the last
RefBraceSpan(s) ==
    IF \E i, j \in 1..Len(s) : i < j /\ s[i] = "{" /\ s[j] = "}"
    THEN LET i == CHOOSE k \in 1..Len(s) : s[k] = "{" /\ \A m \in 1..(k - 1) : s[m] # "{"
             j == CHOOSE k \in 1..Len(s) : s[k] = "}" /\ \A m \in (k + 1)..Len(s) : s[m] # "}"
         IN  IF i < j THEN SubSeq(s, i, j) ELSE s
    ELSE s

RefCleaned(s) == RefBraceSpan(RefUnfenced(RefTrimRight(RefTrimLeft(s))))

\* C20: for every response text the extractor has been applied to, the
\* slice handed to the JSON parser equals the reference chain: trim, take
\* the interior of the JSON-marked fenced block, else of the fenced block,
\* then the span from the first `{` to the last `}` when the first precedes
\* the last.
C20_SliceEqualsReferenceChain ==
    (OpIdx("extract") # {} /\ Len(tasks) = 1) =>
        CleanedText(tasks[1].result) = RefCleaned(tasks[1].result)

\* the same, for texts with at most two fences
C20_SliceEqualsReferenceUpToTwoFences ==
    (/\ OpIdx("extract") # {}
     /\ Len(tasks) = 1
     /\ Cardinality(FenceIdx(tasks[1].result)) <= 2) =>
        CleanedText(tasks[1].result) = RefCleaned(tasks[1].result)

\* the entry as json.loads returned it, before the clean-up
ParsedEntry == JsonLoads(CleanedText(tasks[1].result))

Extracted == entry = "text" /\ Len(tasks) = 1 /\ report_data.kind = "object"

IsSeparator(c) == c \in {".", ","}

\* the first n characters of the part of s before its first separator
RECURSIVE RefCut(_, _)
RefCut(s, n) ==
    IF s = <<>> \/ n = 0 \/ IsSeparator(Head(s)) THEN <<>>
    ELSE <<Head(s)>> \o RefCut(Tail(s), n - 1)

Canonical == <<"0", "0", ":", "0", "1", ":", "0", "2">>

\* C21: the normalization maps a timestamp to its prefix before the first
\* `.` or `,`, cut to at most 8 characters: 00:01:02.345 and 00:01:02,999
\* become 00:01:02, a value of 8 characters without separator is unchanged,
\* and normalizing the result again changes nothing.
C21_TimestampNormalization ==
    Extracted =>
        \A f \in FieldNames :
            LET in == ParsedEntry[f]
                out == report_data[f]
            IN  /\ out = RefCut(in, 8)
                /\ CleanTimestamp(out) = out
                /\ in \in {StampDot, StampComma} => out = Canonical
                /\ (Len(in) = 8 /\ \A i \in 1..8 : ~IsSeparator(in[i])) => out = in

C21_Witness ==
    /\ Extracted
    /\ ParsedEntry.timestamp_end = StampDot
    /\ report_data.timestamp_end = Canonical
    /\ HasKey(outputBucket, ReportKey(report_id))

IsDigit(c) == c \in {"0", "1", "2", "3", "4", "5", "9"}

\* HH:MM:SS
IsCanonical(v) ==
    /\ Len(v) = 8
    /\ \A i \in {1, 2, 4, 5, 7, 8} : IsDigit(v[i])
    /\ v[3] = ":" /\ v[6] = ":"

\* C22: every timestamp and timestamp_end present in the checklist entry
\* of a persisted Report has the shape HH:MM:SS, however the model wrote
\* the value.
C22_PersistedTimestampsCanonical ==
    \A o \in outputBucket :
        \A f \in FieldNames :
            LET v == JsonLoads(o.body.report)[f]
            IN  v # <<>> => IsCanonical(v)

\* the one result document of a run under SpecFormat
TheDoc == CHOOSE d \in svcDocs : TRUE

Formatted == entry = "audio" /\ OpIdx("format") # {} /\ Cardinality(svcDocs) = 1

\* the segment has a word whose start time is the start time of a word item
Resolvable(seg) ==
    \E k \in 1..Len(seg.items) :
        \E j \in 1..Len(TheDoc.items) : TheDoc.items[j].start_time = seg.items[k]

KeptSegments == SelectSeq(TheDoc.segments, Resolvable)

\* C23: in the output of format_transcript the label of the first segment
\* is rendered as Student and every other label as Patient; spk_0 and
\* spk_1 are rendered as Student and Patient.
C23_FirstSpeakerIsStudent ==
    Formatted =>
        /\ Len(transcript) = Len(KeptSegments)
        /\ \A i \in 1..Len(transcript) :
              LET label == KeptSegments[i].speaker_label
              IN  /\ transcript[i].speaker =
                        IF label = TheDoc.segments[1].speaker_label
                        THEN "Student" ELSE "Patient"
                  /\ label = "spk_0" => transcript[i].speaker = "Student"
                  /\ label = "spk_1" => transcript[i].speaker = "Patient"

\* what the formatter does: spk_0 is Student, any other label Patient
C23_Spk0IsStudent ==
    Formatted =>
        /\ Len(transcript) = Len(KeptSegments)
        /\ \A i \in 1..Len(transcript) :
              transcript[i].speaker =
                  IF KeptSegments[i].speaker_label = "spk_0" THEN "Student" ELSE "Patient"

Seconds(ts) == ts[1] * 3600 + ts[2] * 60 + ts[3]

\* one line for each segment with a resolvable word, in segment order,
\* stamped with the segment's start time
LinesFollowSegments ==
    /\ Len(transcript) = Len(KeptSegments)
    /\ \A i \in 1..Len(transcript) :
          Seconds(transcript[i].timestamp) = KeptSegments[i].start_time \div 10
    /\ TheDoc.segments = <<>> => transcript = <<>>

\* C24: the lines of format_transcript are one for each segment that has a
\* resolvable word and none for another segment, and the timestamps of
\* consecutive lines never decrease.
C24_LinesAscending ==
    Formatted =>
        /\ LinesFollowSegments
        /\ \A i \in 1..(Len(transcript) - 1) :
              Seconds(transcript[i].timestamp) <= Seconds(transcript[i + 1].timestamp)

\* the same without the order of the timestamps
C24_OneLinePerResolvableSegment == Formatted => LinesFollowSegments

JobSubmitted == job.name # None

\* C25: the delete call for the job is issued only after the job read
\* COMPLETED and the result fetch and the formatting succeeded; when the
\* job reads FAILED, or the fetch or the formatting fails, no delete is
\* issued and the job record stays in the service.
C25_DeleteOnlyAfterSuccess ==
    entry = "audio" =>
        /\ \A d \in OpIdx("tr_delete") :
              /\ ReadTerminal /\ pollReads[Len(pollReads)] = "COMPLETED"
              /\ d >= 3 /\ oplog[d - 2] = "tr_fetch" /\ oplog[d - 1] = "format"
              /\ abortLen = -1 \/ abortLen >= d
        /\ OpCount("tr_delete") <= 1
        /\ (JobSubmitted /\ OpIdx("tr_delete") = {}) => job.exists
        /\ (JobSubmitted /\ ~job.exists) =>
              OpIdx("tr_delete") # {} /\ (abortLen = -1 \/ oplog[abortLen] # "tr_delete")
        /\ (Done /\ JobSubmitted
              /\ (ReadFailed \/ (abortLen > 0 /\ oplog[abortLen] \in {"tr_poll", "tr_fetch", "format"})))
              => job.exists /\ OpIdx("tr_delete") = {}

C25_Witness ==
    /\ entry = "audio"
    /\ Done
    /\ JobSubmitted
    /\ abortLen > 0
    /\ oplog[abortLen] = "format"
    /\ job.exists

\* the transcript stored under the key of a run's `complete` event is the
\* transcript of that run, for the first run and for the second
RunsKeepTheirTranscripts ==
    /\ CompleteIdx # {} =>
          /\ HasKey(inputBucket, LastEv.transcript_key)
          /\ GetObject(inputBucket, LastEv.transcript_key) = transcript
          /\ GetObject(outputBucket, ReportKey(LastEv.report_id)).transcript = transcript
    /\ peer.pc = "done" =>
          /\ HasKey(inputBucket, peer.complete_key)
          /\ GetObject(inputBucket, peer.complete_key) = peer.transcript
          /\ GetObject(outputBucket, ReportKey(peer.report_id)).transcript = peer.transcript

\* C26: for any interleaving of two concurrent upload-and-analyze runs,
\* runs of files with the same filename stem included, the object stored
\* under the transcript_key of a run's `complete` event is the transcript
\* this run produced and used for its Report; no run overwrites the stored
\* transcript of another.
C26_NoTranscriptOverwritten == entry = "audio" => RunsKeepTheirTranscripts

\* the same for runs of files with different stems
C26_DistinctStemsKeepTranscripts ==
    (entry = "audio" /\ peer.pc # "none" /\ peer.stem # req.filename_stem) =>
        RunsKeepTheirTranscripts
====
